---- MODULE Spec2Model ----
(***************************************************************************)
(* State-machine model of scripts/replace_project_placeholders.py.         *)
(*                                                                         *)
(* Strings (file contents, base names, configured values) are sequences of *)
(* one-character strings, so that str.replace, the `in` test and the text  *)
(* mode conversions of open() are computed, not assumed.  The file system  *)
(* is a function from paths <<directory, base name>> to regular files; a   *)
(* file carries an identity (its inode) that a rename moves with it.       *)
(***************************************************************************)
EXTENDS Integers, Sequences, FiniteSets, TLC

VARIABLES
    config,           \* what cumulusci.yml holds (environment, never written)
    platform,         \* "posix" or "windows": decides os.rename and os.linesep
    dirAttr,          \* per directory: "ok", "EACCES" (not writable), "EROFS"
    fs,               \* the file tree: path -> [id, content, perm]
    fs0,              \* the file tree when the current run of main() started
    pc,               \* position of main()
    run,              \* number of the current run of main()
    project_name,     \* main's local project_name
    project_label,    \* main's local project_label
    files_to_update,  \* main's local files_to_update
    files_to_rename,  \* main's local files_to_rename
    idx,              \* position of the running for-loop in its list
    content_updated,  \* main's local content_updated
    renamed,          \* main's local renamed
    exit_status,      \* -1 while running, then the process exit status
    log,              \* what the run printed: one entry per update / rename attempt
    summaries         \* the summary counts of the runs that are over

vars == <<config, platform, dirAttr, fs, fs0, pc, run, project_name, project_label,
          files_to_update, files_to_rename, idx, content_updated, renamed,
          exit_status, log, summaries>>

---------------------------------------------------------------------------
(* Bounds of the model *)

MaxFiles == 3

MaxRuns == 2

---------------------------------------------------------------------------
(* Strings *)

TOKEN_NAME == <<"_","_","P","R","O","J","E","C","T","_","N","A","M","E","_","_">>

TOKEN_LABEL == <<"_","_","P","R","O","J","E","C","T","_","L","A","B","E","L","_","_">>

IsPrefix(t, s) == Len(t) <= Len(s) /\ SubSeq(s, 1, Len(t)) = t

\* Python's `t in s` for strings
Contains(s, t) == \E i \in 1..(Len(s) - Len(t) + 1) : SubSeq(s, i, i + Len(t) - 1) = t

\* Python's s.replace(old, new), old non-empty: leftmost non-overlapping occurrences
RECURSIVE Replace(_, _, _)
Replace(s, old, new) ==
    IF Len(s) < Len(old) THEN s
    ELSE IF IsPrefix(old, s)
         THEN new \o Replace(SubSeq(s, Len(old) + 1, Len(s)), old, new)
         ELSE <<Head(s)>> \o Replace(Tail(s), old, new)

HasPlaceholder(s) == Contains(s, TOKEN_NAME) \/ Contains(s, TOKEN_LABEL)

---------------------------------------------------------------------------
(* Files, directories and text-mode I/O *)

\* "xFF" stands for a byte sequence that is no valid UTF-8
Decodable(bytes) == \A i \in 1..Len(bytes) : bytes[i] # "xFF"

\* open(..., 'r') with newline=None: "\r\n" and "\r" are read as "\n"
RECURSIVE UniversalNewlines(_)
UniversalNewlines(s) ==
    IF s = <<>> THEN <<>>
    ELSE IF Head(s) = "CR"
         THEN IF Len(s) >= 2 /\ s[2] = "LF"
              THEN <<"LF">> \o UniversalNewlines(SubSeq(s, 3, Len(s)))
              ELSE <<"LF">> \o UniversalNewlines(Tail(s))
         ELSE <<Head(s)>> \o UniversalNewlines(Tail(s))

\* open(..., 'w') with newline=None: "\n" is written as os.linesep
RECURSIVE WriteNewlines(_, _)
WriteNewlines(s, plat) ==
    IF s = <<>> THEN <<>>
    ELSE IF Head(s) = "LF" /\ plat = "windows"
         THEN <<"CR", "LF">> \o WriteNewlines(Tail(s), plat)
         ELSE <<Head(s)>> \o WriteNewlines(Tail(s), plat)

Dirs == {".", "force-app", "force-app/main", "unpackaged"}

Parent(d) == IF d = "force-app/main" THEN "force-app" ELSE "."

\* d is dir_path or below it (what dir_path.rglob('*') walks)
RECURSIVE Under(_, _)
Under(d, dir_path) == d = dir_path \/ (d # "." /\ Under(Parent(d), dir_path))

search_dirs == <<"force-app", "unpackaged">>

Searched(d) == \E k \in 1..Len(search_dirs) : Under(d, search_dirs[k])

\* Subclasses of OSError among the exceptions the model raises
OSErrors == {"OSError", "PermissionError", "FileNotFoundError", "FileExistsError",
             "IsADirectoryError"}

\* with open(file_path, 'r', encoding='utf-8') as f: content = f.read()
OpenRead(fsys, p) ==
    IF p \notin DOMAIN fsys THEN [exc |-> "FileNotFoundError", text |-> <<>>]
    ELSE IF fsys[p].perm = "none" THEN [exc |-> "PermissionError", text |-> <<>>]
    ELSE IF ~Decodable(fsys[p].content) THEN [exc |-> "UnicodeDecodeError", text |-> <<>>]
    ELSE [exc |-> "none", text |-> UniversalNewlines(fsys[p].content)]

\* with open(file_path, 'w', encoding='utf-8') as f: f.write(content)
OpenWrite(fsys, dattr, plat, p, text) ==
    IF p \notin DOMAIN fsys THEN [exc |-> "FileNotFoundError", fs |-> fsys]
    ELSE IF dattr[p[1]] = "EROFS" THEN [exc |-> "OSError", fs |-> fsys]
    ELSE IF fsys[p].perm # "rw" THEN [exc |-> "PermissionError", fs |-> fsys]
    ELSE [exc |-> "none",
          fs |-> [fsys EXCEPT ![p].content = WriteNewlines(text, plat)]]

\* file_path.parent / new_name, resolved against the tree: a file path, the
\* parent directory itself, or a path through a directory that does not exist
Join(parent, new_name) ==
    IF new_name = <<>> THEN [kind |-> "dir", path |-> <<parent, <<>>>>]
    ELSE IF "/" \notin {new_name[i] : i \in 1..Len(new_name)}
         THEN [kind |-> "file", path |-> <<parent, new_name>>]
    ELSE IF /\ Len(new_name) > 3
            /\ SubSeq(new_name, 1, 3) = <<".", ".", "/">>
            /\ "/" \notin {new_name[i] : i \in 4..Len(new_name)}
            /\ parent # "."
         THEN [kind |-> "file", path |-> <<Parent(parent), SubSeq(new_name, 4, Len(new_name))>>]
    ELSE [kind |-> "nodir", path |-> <<parent, new_name>>]

\* os.rename(src, dst) behind Path.rename
OsRename(fsys, dattr, plat, src, target) ==
    LET dst == target.path
        moved == [q \in (DOMAIN fsys \ {src}) \cup {dst} |->
                     IF q = dst THEN fsys[src] ELSE fsys[q]]
    IN  IF src \notin DOMAIN fsys THEN [exc |-> "FileNotFoundError", fs |-> fsys]
        ELSE IF target.kind = "nodir" THEN [exc |-> "FileNotFoundError", fs |-> fsys]
        ELSE IF target.kind = "dir"
             THEN [exc |-> IF plat = "posix" THEN "IsADirectoryError" ELSE "PermissionError",
                   fs |-> fsys]
        ELSE IF dattr[src[1]] = "EROFS" \/ dattr[dst[1]] = "EROFS"
             THEN [exc |-> "OSError", fs |-> fsys]
        ELSE IF dattr[src[1]] = "EACCES" \/ dattr[dst[1]] = "EACCES"
             THEN [exc |-> "PermissionError", fs |-> fsys]
        ELSE IF dst \in DOMAIN fsys /\ plat = "windows"
             THEN [exc |-> "FileExistsError", fs |-> fsys]
        ELSE [exc |-> "none", fs |-> moved]

---------------------------------------------------------------------------
(* The functions of the script *)

\* load_cumulusci_config(): the parsed mapping, or the exception it raises
load_cumulusci_config(cfg) ==
    IF cfg.file = "missing" THEN "FileNotFoundError"
    ELSE IF cfg.file = "malformed" THEN "ValueError"
    ELSE "none"

\* Mutant: a missing name_managed falls back to the name instead of raising
get_project_values_fallback(cfg) ==
    IF ~cfg.has_name
    THEN [exc |-> "ValueError", project_name |-> <<>>, project_label |-> <<>>]
    ELSE [exc |-> "none", project_name |-> cfg.name,
          project_label |-> IF cfg.has_name_managed THEN cfg.name_managed ELSE cfg.name]

\* get_project_values(config): the two values, or the exception it raises
get_project_values(cfg) ==
    IF ~cfg.has_name \/ ~cfg.has_name_managed
    THEN [exc |-> "ValueError", project_name |-> <<>>, project_label |-> <<>>]
    ELSE [exc |-> "none", project_name |-> cfg.name, project_label |-> cfg.name_managed]

\* All orders in which a set of paths can be listed
RECURSIVE Perms(_)
Perms(S) ==
    IF S = {} THEN {<<>>}
    ELSE UNION {{<<p>> \o rest : rest \in Perms(S \ {p})} : p \in S}

\* The regular files dir_path.rglob('*') yields (none for a search directory
\* that holds no file, whether or not it exists)
FilesUnder(fsys, dir_path) == {p \in DOMAIN fsys : Under(p[1], dir_path)}

\* The orders in which the nested loops over search_dirs and rglob can list the
\* files: search_dirs in order, each directory's files in any order
RECURSIVE WalkOrders(_, _)
WalkOrders(fsys, k) ==
    IF k > Len(search_dirs) THEN {<<>>}
    ELSE {here \o rest : here \in Perms(FilesUnder(fsys, search_dirs[k])),
                         rest \in WalkOrders(fsys, k + 1)}

\* Mutant: the scan catches the permission failure only
CaughtInScan_PermissionOnly == {"PermissionError"}

\* The exceptions the except clause of find_files_with_placeholders catches
CaughtInScan == {"UnicodeDecodeError", "PermissionError"}

\* find_files_with_placeholders over the files in walk order, from position k
RECURSIVE find_files_with_placeholders(_, _, _, _)
find_files_with_placeholders(fsys, walk, k, files_to_update_) ==
    IF k > Len(walk) THEN [exc |-> "none", files |-> files_to_update_]
    ELSE LET r == OpenRead(fsys, walk[k])
         IN  IF r.exc = "none"
             THEN find_files_with_placeholders(fsys, walk, k + 1,
                      IF HasPlaceholder(r.text)
                      THEN Append(files_to_update_, walk[k]) ELSE files_to_update_)
             ELSE IF r.exc \in CaughtInScan
                  THEN find_files_with_placeholders(fsys, walk, k + 1, files_to_update_)
                  ELSE [exc |-> r.exc, files |-> files_to_update_]

\* Mutant: only files whose text can be read are name candidates
NameMatches_ReadableOnly(fsys, p) ==
    HasPlaceholder(p[2]) /\ OpenRead(fsys, p).exc = "none"

\* The test of find_files_with_placeholder_names on one path
NameMatches(fsys, p) == HasPlaceholder(p[2])

\* find_files_with_placeholder_names over the files in walk order
find_files_with_placeholder_names(fsys, walk) ==
    SelectSeq(walk, LAMBDA p : NameMatches(fsys, p))

\* Mutant: the second replace call is missing
ReplaceInContent_NameOnly(content, name, label) ==
    Replace(content, TOKEN_NAME, name)

\* s.replace(old, new, 1): the leftmost occurrence only
RECURSIVE ReplaceFirst(_, _, _)
ReplaceFirst(s, old, new) ==
    IF Len(s) < Len(old) THEN s
    ELSE IF IsPrefix(old, s)
         THEN new \o SubSeq(s, Len(old) + 1, Len(s))
         ELSE <<Head(s)>> \o ReplaceFirst(Tail(s), old, new)

\* Mutant: each replace call replaces one occurrence
ReplaceInContent_FirstOnly(content, name, label) ==
    ReplaceFirst(ReplaceFirst(content, TOKEN_NAME, name), TOKEN_LABEL, label)

\* The two str.replace calls of update_file_content
ReplaceInContent(content, name, label) ==
    Replace(Replace(content, TOKEN_NAME, name), TOKEN_LABEL, label)

\* The exceptions the except clause of update_file_content catches
CaughtInUpdate == {"UnicodeDecodeError", "PermissionError"}

\* update_file_content: ret is its return value, warned whether it printed the
\* warning, exc the exception that leaves it ("none" when it returns)
update_file_content(fsys, dattr, plat, file_path, name, label) ==
    LET r == OpenRead(fsys, file_path)
        content == ReplaceInContent(r.text, name, label)
        w == OpenWrite(fsys, dattr, plat, file_path, content)
        handled(e) == IF e \in CaughtInUpdate
                      THEN [exc |-> "none", ret |-> FALSE, warned |-> TRUE, fs |-> fsys]
                      ELSE [exc |-> e, ret |-> FALSE, warned |-> FALSE, fs |-> fsys]
    IN  IF r.exc # "none" THEN handled(r.exc)
        ELSE IF content # r.text
             THEN IF w.exc # "none" THEN handled(w.exc)
                  ELSE [exc |-> "none", ret |-> TRUE, warned |-> FALSE, fs |-> w.fs]
             ELSE [exc |-> "none", ret |-> FALSE, warned |-> FALSE, fs |-> fsys]

\* The two str.replace calls of rename_file
NewName(base, name, label) ==
    Replace(Replace(base, TOKEN_NAME, name), TOKEN_LABEL, label)

\* Mutant: rename_file catches the permission failure only
CaughtInRename_PermissionOnly == {"PermissionError"}

\* The exceptions the except clause of rename_file catches: OSError and subclasses
CaughtInRename == OSErrors

\* rename_file: path is the path it returns
rename_file(fsys, dattr, plat, file_path, name, label) ==
    LET new_name == NewName(file_path[2], name, label)
        new_path == Join(file_path[1], new_name)
        r == OsRename(fsys, dattr, plat, file_path, new_path)
    IN  IF new_name # file_path[2]
        THEN IF r.exc = "none"
             THEN [exc |-> "none", path |-> new_path.path, warned |-> FALSE, fs |-> r.fs]
             ELSE IF r.exc \in CaughtInRename
                  THEN [exc |-> "none", path |-> file_path, warned |-> TRUE, fs |-> fsys]
                  ELSE [exc |-> r.exc, path |-> file_path, warned |-> FALSE, fs |-> fsys]
        ELSE [exc |-> "none", path |-> file_path, warned |-> FALSE, fs |-> fsys]

---------------------------------------------------------------------------
(* Initial states: the configurations and file trees the runs start from *)

NameValues == {<<"a">>, <<>>, <<".", ".", "/", "a">>}

LabelValues == {<<"a", "b">>, TOKEN_NAME}

OkConfig(n, l) ==
    [file |-> "ok", has_name |-> TRUE, has_name_managed |-> TRUE,
     name |-> n, name_managed |-> l]

Configs ==
    {OkConfig(n, l) : n \in NameValues, l \in LabelValues}
    \cup {[OkConfig(<<"a">>, <<"a", "b">>) EXCEPT !.file = "missing"],
          [OkConfig(<<"a">>, <<"a", "b">>) EXCEPT !.file = "malformed"],
          [OkConfig(<<>>, <<"a", "b">>) EXCEPT !.has_name = FALSE],
          [OkConfig(<<"a">>, <<>>) EXCEPT !.has_name_managed = FALSE]}

Platforms == {"posix", "windows"}

DirAttrs ==
    {[d \in Dirs |-> "ok"],
     [d \in Dirs |-> IF d = "force-app" THEN "EACCES" ELSE "ok"],
     [d \in Dirs |-> IF d = "unpackaged" THEN "EROFS" ELSE "ok"],
     [d \in Dirs |-> IF d = "force-app/main" THEN "EROFS" ELSE "ok"]}

\* The files a tree is drawn from; a file's identity is its position here
Universe ==
    << \* text with both tokens and a CRLF line end, named by the first token
       [path |-> <<"force-app", TOKEN_NAME>>,
        content |-> <<"x">> \o TOKEN_NAME \o <<"CR", "LF">> \o TOKEN_LABEL \o TOKEN_NAME,
        perm |-> "rw"],
       \* plain text under the name the first file is renamed to
       [path |-> <<"force-app", <<"a">>>>,
        content |-> <<"p">>, perm |-> "rw"],
       \* undecodable bytes, named by the second token
       [path |-> <<"force-app/main", TOKEN_LABEL>>,
        content |-> <<"xFF">> \o TOKEN_NAME, perm |-> "rw"],
       \* read-only text: the second token overlapped by the first
       [path |-> <<"force-app/main", TOKEN_NAME \o <<"b">>>>,
        content |-> TOKEN_LABEL \o <<"P","R","O","J","E","C","T","_","N","A","M","E","_","_">>,
        perm |-> "ro"],
       \* text with the first token nested in its own halves
       [path |-> <<"unpackaged", <<"a">>>>,
        content |-> <<"_","_","P","R","O","J","E","C","T","_">> \o TOKEN_NAME
                    \o <<"N","A","M","E","_","_">>,
        perm |-> "rw"],
       \* unreadable text, named by the second token
       [path |-> <<"unpackaged", TOKEN_LABEL>>,
        content |-> <<"a">> \o TOKEN_LABEL, perm |-> "none"],
       \* outside the searched directories: token in the content
       [path |-> <<".", <<"a">>>>,
        content |-> <<"o">> \o TOKEN_NAME, perm |-> "rw"],
       \* outside the searched directories: token in the name
       [path |-> <<".", TOKEN_NAME>>,
        content |-> TOKEN_LABEL, perm |-> "rw"],
       \* writable text: the second token overlapped by the first
       [path |-> <<"unpackaged", TOKEN_NAME>>,
        content |-> TOKEN_LABEL \o <<"P","R","O","J","E","C","T","_","N","A","M","E","_","_">>,
        perm |-> "rw"] >>

TreeOf(S) ==
    [p \in {Universe[i].path : i \in S} |->
        LET i == CHOOSE j \in S : Universe[j].path = p
        IN  [id |-> i, content |-> Universe[i].content, perm |-> Universe[i].perm]]

Init ==
    /\ config \in Configs
    /\ platform \in Platforms
    /\ dirAttr \in DirAttrs
    /\ \E S \in SUBSET (1..Len(Universe)) :
          /\ Cardinality(S) <= MaxFiles
          /\ fs = TreeOf(S)
    /\ fs0 = fs
    /\ pc = "start"
    /\ run = 1
    /\ project_name = <<>>
    /\ project_label = <<>>
    /\ files_to_update = <<>>
    /\ files_to_rename = <<>>
    /\ idx = 1
    /\ content_updated = 0
    /\ renamed = 0
    /\ exit_status = -1
    /\ log = {}
    /\ summaries = <<>>

---------------------------------------------------------------------------
(* main() *)

\* The order of the two loops of main
Stages == <<"update", "rename">>

ListOf(stage, upd, ren) == IF stage = "update" THEN upd ELSE ren

\* Where main goes once the loops before position k are over: the first
\* remaining loop with something to iterate, or the end of main
RECURSIVE StageFrom(_, _, _)
StageFrom(k, upd, ren) ==
    IF k > Len(Stages) THEN "done"
    ELSE IF Len(ListOf(Stages[k], upd, ren)) > 0 THEN Stages[k]
    ELSE StageFrom(k + 1, upd, ren)

Position(stage) == CHOOSE k \in 1..Len(Stages) : Stages[k] = stage

\* exit(main()): main returns None at its end
ExitOf(next_pc) == IF next_pc = "done" THEN 0 ELSE -1

Entry(op, p, res, to) == [op |-> op, path |-> p, res |-> res, to |-> to]

\* Lines 123-131: load the configuration, return 1 on any exception
LoadConfig ==
    /\ pc = "start"
    /\ LET e == load_cumulusci_config(config)
           v == get_project_values(config)
       IN  IF e # "none" \/ v.exc # "none"
           THEN /\ pc' = "failed"
                /\ exit_status' = 1
                /\ UNCHANGED <<project_name, project_label>>
           ELSE /\ pc' = "find_content"
                /\ project_name' = v.project_name
                /\ project_label' = v.project_label
                /\ UNCHANGED exit_status
    /\ UNCHANGED <<config, platform, dirAttr, fs, fs0, run, files_to_update,
                   files_to_rename, idx, content_updated, renamed, log, summaries>>

\* Line 135: files_to_update = find_files_with_placeholders('.')
FindContent ==
    /\ pc = "find_content"
    /\ \E walk \in WalkOrders(fs, 1) :
          LET r == find_files_with_placeholders(fs, walk, 1, <<>>)
          IN  IF r.exc = "none"
              THEN /\ files_to_update' = r.files
                   /\ pc' = "find_names"
                   /\ UNCHANGED exit_status
              ELSE /\ pc' = "crashed"
                   /\ exit_status' = 1
                   /\ UNCHANGED files_to_update
    /\ UNCHANGED <<config, platform, dirAttr, fs, fs0, run, project_name, project_label,
                   files_to_rename, idx, content_updated, renamed, log, summaries>>

\* Line 136: files_to_rename = find_files_with_placeholder_names('.')
FindNames ==
    /\ pc = "find_names"
    /\ \E walk \in WalkOrders(fs, 1) :
          /\ files_to_rename' = find_files_with_placeholder_names(fs, walk)
          /\ pc' = StageFrom(1, files_to_update, files_to_rename')
          /\ exit_status' = ExitOf(pc')
    /\ idx' = 1
    /\ UNCHANGED <<config, platform, dirAttr, fs, fs0, run, project_name, project_label,
                   files_to_update, content_updated, renamed, log, summaries>>

\* Lines 144-147: one iteration of the loop over files_to_update
UpdateStep ==
    /\ pc = "update"
    /\ LET file_path == files_to_update[idx]
           r == update_file_content(fs, dirAttr, platform, file_path,
                                    project_name, project_label)
           last == idx = Len(files_to_update)
       IN  IF r.exc # "none"
           THEN /\ pc' = "crashed"
                /\ exit_status' = 1
                /\ log' = log \cup {Entry("update", file_path, "raised", file_path)}
                /\ UNCHANGED <<fs, idx, content_updated>>
           ELSE /\ fs' = r.fs
                /\ content_updated' = IF r.ret THEN content_updated + 1 ELSE content_updated
                /\ log' = log \cup {Entry("update", file_path,
                                          IF r.ret THEN "updated"
                                          ELSE IF r.warned THEN "warning" ELSE "unchanged",
                                          file_path)}
                /\ idx' = IF last THEN 1 ELSE idx + 1
                /\ pc' = IF last
                         THEN StageFrom(Position("update") + 1, files_to_update, files_to_rename)
                         ELSE "update"
                /\ exit_status' = ExitOf(pc')
    /\ UNCHANGED <<config, platform, dirAttr, fs0, run, project_name, project_label,
                   files_to_update, files_to_rename, renamed, summaries>>

\* Lines 152-156: one iteration of the loop over files_to_rename
RenameStep ==
    /\ pc = "rename"
    /\ LET file_path == files_to_rename[idx]
           r == rename_file(fs, dirAttr, platform, file_path, project_name, project_label)
           last == idx = Len(files_to_rename)
       IN  IF r.exc # "none"
           THEN /\ pc' = "crashed"
                /\ exit_status' = 1
                /\ log' = log \cup {Entry("rename", file_path, "raised", file_path)}
                /\ UNCHANGED <<fs, idx, renamed>>
           ELSE /\ fs' = r.fs
                /\ renamed' = IF r.path # file_path THEN renamed + 1 ELSE renamed
                /\ log' = log \cup {Entry("rename", file_path,
                                          IF r.path # file_path THEN "renamed"
                                          ELSE IF r.warned THEN "warning" ELSE "unchanged",
                                          r.path)}
                /\ idx' = IF last THEN 1 ELSE idx + 1
                /\ pc' = IF last
                         THEN StageFrom(Position("rename") + 1, files_to_update, files_to_rename)
                         ELSE "rename"
                /\ exit_status' = ExitOf(pc')
    /\ UNCHANGED <<config, platform, dirAttr, fs0, run, project_name, project_label,
                   files_to_update, files_to_rename, content_updated, summaries>>

\* The tool is run again on the tree the last run left, same configuration
Rerun ==
    /\ pc \in {"done", "failed", "crashed"}
    /\ run < MaxRuns
    /\ run' = run + 1
    /\ fs0' = fs
    /\ pc' = "start"
    /\ project_name' = <<>>
    /\ project_label' = <<>>
    /\ files_to_update' = <<>>
    /\ files_to_rename' = <<>>
    /\ idx' = 1
    /\ content_updated' = 0
    /\ renamed' = 0
    /\ exit_status' = -1
    /\ log' = {}
    /\ summaries' = Append(summaries, [content_updated |-> content_updated,
                                       renamed |-> renamed, pc |-> pc])
    /\ UNCHANGED <<config, platform, dirAttr, fs>>

Next ==
    \/ LoadConfig
    \/ FindContent
    \/ FindNames
    \/ UpdateStep
    \/ RenameStep
    \/ Rerun

Spec == Init /\ [][Next]_vars

---------------------------------------------------------------------------
(* Vocabulary of the properties *)

Tokens == {TOKEN_NAME, TOKEN_LABEL}

\* The number of times t occurs in s, as Python's s.count(t) counts:
\* non-overlapping occurrences from the left (Len(s) + 1 for the empty t)
RECURSIVE Count(_, _)
Count(s, t) ==
    IF t = <<>> THEN Len(s) + 1
    ELSE IF Len(s) < Len(t) THEN 0
    ELSE IF IsPrefix(t, s)
         THEN 1 + Count(SubSeq(s, Len(t) + 1, Len(s)), t)
         ELSE Count(Tail(s), t)

\* The value a token is replaced by in the current run
ValueOf(T) == IF T = TOKEN_NAME THEN project_name ELSE project_label

Ids(fsys) == {fsys[p].id : p \in DOMAIN fsys}

PathOf(fsys, i) == CHOOSE p \in DOMAIN fsys : fsys[p].id = i

ContentOf(fsys, i) == fsys[PathOf(fsys, i)].content

\* The file that was at path p when the run started is still there (anywhere)
Survives(p) == fs0[p].id \in Ids(fs)

\* The present content of the file that was at path p when the run started
NowOf(p) == ContentOf(fs, fs0[p].id)

IsSuffix(t, s) == Len(t) <= Len(s) /\ SubSeq(s, Len(s) - Len(t) + 1, Len(s)) = t

\* Inserting v into any text cannot complete an occurrence of a token: v is not
\* empty, holds no token, is no part of a token, and neither ends with the
\* beginning of a token nor begins with the end of one
TokenSafe(v) ==
    /\ v # <<>>
    /\ \A T \in Tokens :
          /\ ~Contains(v, T)
          /\ ~Contains(T, v)
          /\ \A k \in 1..Len(v) :
                /\ ~IsPrefix(SubSeq(v, k, Len(v)), T)
                /\ ~IsSuffix(SubSeq(v, 1, k), T)

\* The configuration is one main() loads successfully
ConfigLoads == config.file = "ok" /\ config.has_name /\ config.has_name_managed

SafeConfig == ConfigLoads /\ TokenSafe(config.name) /\ TokenSafe(config.name_managed)

\* The contents of the files, by identity, are those of the start of the run
ContentsKept ==
    \A p \in DOMAIN fs0 : Survives(p) => NowOf(p) = fs0[p].content

Logged(op, p) == \E e \in log : e.op = op /\ e.path = p

Elems(seq) == {seq[i] : i \in 1..Len(seq)}

---------------------------------------------------------------------------
(* C1 *)

\* C1 as stated: after a complete run, every decodable text file under the
\* searched directories that held a token T holds no T any more, and holds the
\* value of T exactly as many more times as T occurred in it.
C1_Original ==
    pc = "done" =>
        \A p \in DOMAIN fs0 : \A T \in Tokens :
            (/\ Searched(p[1])
             /\ Decodable(fs0[p].content)
             /\ Contains(fs0[p].content, T)
             /\ Survives(p))
            => /\ ~Contains(NowOf(p), T)
               /\ Count(NowOf(p), ValueOf(T))
                     = Count(fs0[p].content, ValueOf(T)) + Count(fs0[p].content, T)

\* C1, amended: when both configured values are token-safe, after a complete run
\* every readable and writable decodable text file under the searched
\* directories that held a token holds no token any more: its content is the
\* original text with the first token replaced by the name from left to right,
\* and then the second token of the result replaced by the label.
C1_Substitution ==
    (pc = "done" /\ TokenSafe(project_name) /\ TokenSafe(project_label)) =>
        \A p \in DOMAIN fs0 :
            (/\ Searched(p[1])
             /\ Decodable(fs0[p].content)
             /\ fs0[p].perm = "rw"
             /\ HasPlaceholder(fs0[p].content)
             /\ Survives(p))
            => /\ ~HasPlaceholder(NowOf(p))
               /\ NowOf(p) = WriteNewlines(
                     Replace(Replace(UniversalNewlines(fs0[p].content),
                                     TOKEN_NAME, project_name),
                             TOKEN_LABEL, project_label), platform)

\* C1 witness: a complete run with token-safe values that rewrote a file which
\* held both tokens, one of them twice
C1_Witness ==
    /\ pc = "done"
    /\ TokenSafe(project_name) /\ TokenSafe(project_label)
    /\ \E p \in DOMAIN fs0 :
          /\ Searched(p[1])
          /\ Count(fs0[p].content, TOKEN_NAME) = 2
          /\ Contains(fs0[p].content, TOKEN_LABEL)
          /\ Survives(p)
          /\ ~HasPlaceholder(NowOf(p))
          /\ Entry("update", p, "updated", p) \in log

---------------------------------------------------------------------------
(* C2 *)

\* C2 as stated: for every configuration, a second run changes no content
\* and counts no content update.
C2_Original == run >= 2 => (content_updated = 0 /\ ContentsKept)

\* A step changes the content of files that held a token only, and leaves no
\* token in a file it changes
OnlyTokensRewritten ==
    \A i \in Ids(fs) \cap Ids(fs') :
        ContentOf(fs', i) # ContentOf(fs, i)
        => /\ HasPlaceholder(ContentOf(fs, i))
           /\ ~HasPlaceholder(ContentOf(fs', i))

\* C2, amended: for every configuration whose two values are token-safe (and
\* for every configuration that fails to load), main changes the content of
\* files that hold a token only and leaves no token in a file it has
\* rewritten, so that no later run changes that file again; and a run that
\* follows a run which ran to its end changes no content and counts no content
\* update.
C2_Idempotent ==
    /\ [][(SafeConfig \/ ~ConfigLoads) => OnlyTokensRewritten]_vars
    /\ []((/\ run >= 2
           /\ SafeConfig \/ ~ConfigLoads
           /\ summaries[run - 1].pc # "crashed")
          => (content_updated = 0 /\ ContentsKept))

\* C2 witness: a second complete run that updated nothing after a first
\* complete run that rewrote files
C2_Witness ==
    /\ run = 2
    /\ pc = "done"
    /\ SafeConfig
    /\ summaries[1].pc = "done"
    /\ summaries[1].content_updated >= 2
    /\ content_updated = 0

---------------------------------------------------------------------------
(* C3 *)

\* C3 as stated: every file outside the searched directories keeps its name
\* and its content through any run.
C3_OutsideUntouched ==
    \A p \in DOMAIN fs0 :
        ~Searched(p[1]) => (p \in DOMAIN fs /\ fs[p] = fs0[p])

---------------------------------------------------------------------------
(* C4 *)

---------------------------------------------------------------------------
(* C5 *)

\* C5 as stated: no rename is attempted before the update of every content
\* candidate has been attempted, and a renamed file is then found in its
\* parent directory under its base name with both tokens replaced.
C5_Original ==
    /\ (\E e \in log : e.op = "rename") =>
          \A p \in Elems(files_to_update) : Logged("update", p)
    /\ \A e \in log :
          (e.op = "rename" /\ e.res = "renamed") =>
             e.to = <<e.path[1],
                      Replace(Replace(e.path[2], TOKEN_NAME, project_name),
                              TOKEN_LABEL, project_label)>>

---------------------------------------------------------------------------
(* C6 *)

\* C6: when the configuration does not load, main ends with exit status 1
\* without entering the scan, the rewrite or the rename: the tree is the one
\* the run started from, no candidate list was built and nothing was attempted.
C6_ConfigFailure ==
    ~ConfigLoads =>
        /\ pc \in {"start", "failed"}
        /\ exit_status = (IF pc = "failed" THEN 1 ELSE -1)
        /\ fs = fs0
        /\ files_to_update = <<>> /\ files_to_rename = <<>>
        /\ log = {}

\* C6 witness: main has returned 1 for a configuration without name_managed,
\* over a tree with a file to rewrite and to rename
C6_Witness ==
    /\ pc = "failed"
    /\ config.file = "ok" /\ config.has_name /\ ~config.has_name_managed
    /\ \E p \in DOMAIN fs :
          /\ Searched(p[1])
          /\ fs[p].perm = "rw"
          /\ HasPlaceholder(fs[p].content)
          /\ HasPlaceholder(p[2])

---------------------------------------------------------------------------
(* C7 *)

\* The rename main is about to attempt raises
RenameRaises ==
    /\ pc = "rename"
    /\ LET file_path == files_to_rename[idx]
           new_name == NewName(file_path[2], project_name, project_label)
       IN  /\ new_name # file_path[2]
           /\ OsRename(fs, dirAttr, platform, file_path,
                       Join(file_path[1], new_name)).exc # "none"

\* C7: a rename that raises leaves the whole tree as it was, the candidate is
\* not counted as renamed, and main goes on to the next name candidate (to its
\* normal end after the last one); a run that reaches its end has attempted
\* every name candidate.
C7_RenameFailure ==
    /\ [][RenameRaises =>
            /\ fs' = fs
            /\ renamed' = renamed
            /\ Entry("rename", files_to_rename[idx], "warning", files_to_rename[idx]) \in log'
            /\ IF idx < Len(files_to_rename)
               THEN pc' = "rename" /\ idx' = idx + 1
               ELSE pc' = "done" /\ exit_status' = 0]_vars
    /\ [](pc = "done" => \A p \in Elems(files_to_rename) : Logged("rename", p))

\* C7 witness: a complete run in which the rename of one candidate failed, the
\* file is where it was with the content it had, and another candidate was
\* renamed
C7_Witness ==
    /\ pc = "done"
    /\ \E e \in log :
          /\ e.op = "rename" /\ e.res = "warning"
          /\ e.path \in DOMAIN fs /\ e.path \in DOMAIN fs0
          /\ fs[e.path].id = fs0[e.path].id
    /\ \E e \in log : e.op = "rename" /\ e.res = "renamed"
    /\ renamed = 1
    /\ Len(files_to_rename) >= 2

---------------------------------------------------------------------------
(* C8 *)

\* C8 as stated: once the configuration is loaded, a failure on a content
\* candidate never ends the run: no exception leaves main, the failing file
\* keeps its content, and the run ends with exit status 0 after attempting
\* every content candidate and every name candidate.
C8_Original ==
    ConfigLoads =>
        /\ pc # "crashed"
        /\ exit_status \in {-1, 0}
        /\ \A e \in log :
              (e.op = "update" /\ e.res \in {"warning", "raised"} /\ e.path \in DOMAIN fs)
              => fs[e.path].content = fs0[e.path].content
        /\ pc = "done" =>
              /\ \A p \in Elems(files_to_update) : Logged("update", p)
              /\ \A p \in Elems(files_to_rename) : Logged("rename", p)

---------------------------------------------------------------------------
(* C9 *)

\* The file at path p could not be read as text when the run started
ReadFails(p) == OpenRead(fs0, p).exc # "none"

\* C9 as stated: a file whose text read failed in the scan or whose content
\* update failed is not renamed in that run.
C9_Original ==
    \A e \in log :
        (e.op = "rename" /\ e.res = "renamed")
        => /\ ~ReadFails(e.path)
           /\ Entry("update", e.path, "warning", e.path) \notin log

\* C9, amended: a file whose text read failed in the scan or whose content
\* update failed is excluded from content processing in that run (it is no
\* content candidate, or is not written, and keeps its content), but it remains
\* a name candidate when its base name holds a token, and its rename is
\* attempted like any other.
C9_ErrorsSkipContentOnly ==
    \A p \in DOMAIN fs0 : Searched(p[1]) =>
        /\ ReadFails(p) =>
              /\ p \notin Elems(files_to_update)
              /\ ~Logged("update", p)
        /\ (ReadFails(p) \/ Entry("update", p, "warning", p) \in log) =>
              /\ Survives(p) => NowOf(p) = fs0[p].content
              /\ (HasPlaceholder(p[2]) /\ pc \in {"update", "rename", "done"})
                    => p \in Elems(files_to_rename)
              /\ (HasPlaceholder(p[2]) /\ pc = "done") => Logged("rename", p)

\* C9 witness: a complete run that renamed a file it could not read and a file
\* it could not write
C9_Witness ==
    /\ pc = "done"
    /\ \E e \in log : e.op = "rename" /\ e.res = "renamed" /\ ReadFails(e.path)
    /\ \E e \in log : /\ e.op = "rename" /\ e.res = "renamed"
                      /\ Entry("update", e.path, "warning", e.path) \in log

---------------------------------------------------------------------------
(* C10 *)

\* C10 as stated: a run keeps the number of files under the searched
\* directories, and a file that is no name candidate stays where it is: nothing
\* is renamed over it.
C10_Original ==
    /\ Cardinality({p \in DOMAIN fs : Searched(p[1])})
          = Cardinality({p \in DOMAIN fs0 : Searched(p[1])})
    /\ \A p \in DOMAIN fs0 :
          (Searched(p[1]) /\ ~HasPlaceholder(p[2]))
          => (p \in DOMAIN fs /\ fs[p].id = fs0[p].id)

====
